---- MODULE Spec2Model ----
(***************************************************************************)
(* The multi-tier error-correcting codec of src/src/error_correction:      *)
(* ClassicalErrorCorrection, BridgeErrorCorrection, QuantumErrorCorrection *)
(* and ComprehensiveErrorCorrection behind the ErrorCorrection trait, and  *)
(* the factory create_error_correction.                                    *)
(*                                                                         *)
(* Bytes are the integers 0..255 and all byte arithmetic is done modulo    *)
(* 2^8.  A Rust slice data[a..b] is SubSeq(data, a+1, b).  A call returns  *)
(* Ok(v), Err(e), or Panic(why) when the code faults (remainder by zero,   *)
(* index out of range, arithmetic overflow with overflow checks on).       *)
(***************************************************************************)
EXTENDS Integers, Sequences, FiniteSets, TLC

VARIABLES
    markers,   \* the sentinel bytes written as 0xRS, 0xQS, 0xQE in the source
    codec,     \* the constructed codec instance (its kind and its fields)
    payload,   \* the argument of the encode call
    encoded,   \* what encode returned
    wire,      \* the frame handed to decode and has_errors
    env,       \* what the decode call depended on besides its argument
    decoded,   \* what decode returned
    checked,   \* what has_errors returned: "none" yet, "true" or "false"
    pc,        \* "start", "ready", "encoded", "failed", "corrupted", "received"
    requested, \* the ErrorCorrectionType handed to the factory, if any
    calls,     \* the call of each caller that shares the instance
    args,      \* the arguments handed to new or with_params, where recorded
    reported   \* what correction_type returned, "none" before the call

vars == <<markers, codec, payload, encoded, wire, env, decoded, checked, pc,
          requested, calls, args, reported>>

-----------------------------------------------------------------------------
(* Bounds of the model *)

MaxClassicalLen == 7
MaxBridgeLen == 3
MaxQuantumLen == 9
MaxComprehensiveLen == 10
MaxUndefinedParityLen == 3
MaxShortFrameLen == 3

\* the byte values payloads are built from; the short bridge payloads also
\* take bytes whose sum wraps around
PayloadBytes == {0, 82}
BridgePayloadBytes == {0, 1, 82, 255}

\* arguments handed to the constructors (clamped by them)
ClassicalArgs == {0, 8, 25, 30, 99}
BridgeRedundancyArgs == 0..6
BridgeVerificationArgs == {0, 3, 9}
QuantumDistanceArgs == {4}
QuantumSyndromeArgs == {0, 2, 200}

\* 0xRS, 0xQS and 0xQE are not hexadecimal literals: each marker is some
\* fixed byte the source does not determine.  The second choice makes the
\* quantum markers coincide with the bridge markers.
MarkerChoices ==
    { [rs |-> 82, qs |-> 81, qe |-> 69],
      [rs |-> 80, qs |-> 183, qe |-> 232] }

-----------------------------------------------------------------------------
(* Results *)

Ok(v) == [tag |-> "Ok", val |-> v, err |-> "none"]
Err(e) == [tag |-> "Err", val |-> <<>>, err |-> e]
Panic(why) == [tag |-> "Panic", val |-> <<>>, err |-> why]
NoResult == [tag |-> "None", val |-> <<>>, err |-> "none"]

NoEnv == [overflow_checks |-> "n/a", parity_len |-> -1]

-----------------------------------------------------------------------------
(* u8 arithmetic *)

BitAt(x, i) == (x \div (2 ^ i)) % 2

\* a ^ b and a & b, bit by bit; tabulated once over all pairs of bytes
XorTable ==
    [a \in 0..255 |-> [b \in 0..255 |->
        LET f(i) == ((BitAt(a, i) + BitAt(b, i)) % 2) * (2 ^ i)
        IN  f(0) + f(1) + f(2) + f(3) + f(4) + f(5) + f(6) + f(7)]]

Xor(a, b) == XorTable[a][b]

BitAnd(a, b) ==
    LET f(i) == (BitAt(a, i) * BitAt(b, i)) * (2 ^ i)
    IN  f(0) + f(1) + f(2) + f(3) + f(4) + f(5) + f(6) + f(7)

wrapping_add(a, b) == (a + b) % 256

\* a shift that drops the bits a rotation would carry round
shift_left(b, k) == (b * (2 ^ (k % 8))) % 256

rotate_left(b, k) ==
    LET s == k % 8
    IN  ((b * (2 ^ s)) % 256) + (b \div (2 ^ (8 - s)))

Min(a, b) == IF a < b THEN a ELSE b
Max(a, b) == IF a > b THEN a ELSE b

SeqsUpTo(S, n) == UNION { [1..k -> S] : k \in 0..n }

RECURSIVE Concat(_)
Concat(ss) == IF ss = <<>> THEN <<>> ELSE Head(ss) \o Concat(Tail(ss))

-----------------------------------------------------------------------------
(* Classical tier: classical.rs *)

ClassicalErrorCorrection_new(redundancy) ==
    [redundancy |-> Max(Min(redundancy, 30), 5)]

\* parity[k] after the loop of lines 41-43, seen from index i on
RECURSIVE ParityByte(_, _, _, _)
ParityByte(data, parity_len, k, i) ==
    IF i > Len(data) THEN 0
    ELSE IF (i - 1) % parity_len = k
         THEN Xor(data[i], ParityByte(data, parity_len, k, i + 1))
         ELSE ParityByte(data, parity_len, k, i + 1)

\* an encode that never looks whether the payload is empty
reed_solomon_encode_unchecked(self, data) ==
    LET parity_len == (Len(data) * self.redundancy) \div 100
    IN  IF data # <<>> /\ parity_len = 0
        THEN Panic("remainder by zero")
        ELSE Ok(data \o <<markers.rs, self.redundancy>>
                \o [k \in 1..parity_len |->
                       ParityByte(data, parity_len, k - 1, 1)])

reed_solomon_encode(self, data) ==
    IF data = <<>> THEN Err("InvalidData")
    ELSE LET data_len == Len(data)
             parity_len == (data_len * self.redundancy) \div 100
         IN  IF parity_len = 0
             THEN Panic("remainder by zero")          \* i % parity_len
             ELSE LET parity == [k \in 1..parity_len |->
                                   ParityByte(data, parity_len, k - 1, 1)]
                  IN  Ok(data \o <<markers.rs, self.redundancy>> \o parity)

\* parity_len is read at lines 58 and 63 before line 64 defines it: u is the
\* value those two reads see.
reed_solomon_decode(self, data, u) ==
    LET n == Len(data)
    IN  IF n < 3 THEN Err("InvalidData")
        ELSE IF n - u - 2 < 0 THEN Panic("index out of range")
        ELSE IF data[(n - u - 2) + 1] # markers.rs THEN Err("InvalidData")
        ELSE LET redundancy == data[(n - u - 1) + 1]
                 parity_len == (n * redundancy) \div 100
                 original_data_len == n - parity_len - 2
             IN  IF original_data_len < 0
                 THEN Panic("subtract with overflow")
                 ELSE Ok(SubSeq(data, 1, original_data_len))

\* a check that looks at the final byte of any sequence, marker or not
reed_solomon_check_without_marker(self, data) ==
    IF data = <<>> THEN TRUE
    ELSE BitAnd(data[Len(data)], 15) = 0

reed_solomon_check(self, data) ==
    LET n == Len(data)
    IN  IF n < 3 \/ data[(n - 2) + 1] # markers.rs THEN TRUE
        ELSE LET has_error == BitAnd(data[n], 15) # 0
             IN  ~has_error

Classical_has_errors(self, data) == ~reed_solomon_check(self, data)

-----------------------------------------------------------------------------
(* Bridge tier: bridge.rs *)

BRIDGE_HEADER == 183
BRIDGE_TRAILER == 232

BridgeErrorCorrection_new ==
    [redundancy_level |-> 3, verification_iterations |-> 2]

BridgeErrorCorrection_with_params(redundancy_level, verification_iterations) ==
    [redundancy_level |-> Min(Max(redundancy_level, 1), 5),
     verification_iterations |-> Min(Max(verification_iterations, 1), 5)]

\* the verification hash of the bytes lo..hi of a block, as what it makes of
\* the hash computed so far (lines 51-54); the range is halved so that a long
\* block is evaluated at a small depth
RECURSIVE HashFrom(_, _, _)
HashFrom(block, lo, hi) ==
    IF lo > hi THEN [hash \in 0..255 |-> hash]
    ELSE IF lo = hi
         THEN [hash \in 0..255 |-> rotate_left(wrapping_add(hash, block[lo]), 1)]
    ELSE LET mid == (lo + hi) \div 2
             first == HashFrom(block, lo, mid)
             rest == HashFrom(block, mid + 1, hi)
         IN  [hash \in 0..255 |-> rest[first[hash]]]

rolling_hash(block) == HashFrom(block, 1, Len(block))[0]

\* a hash that adds the bytes and never rotates
RECURSIVE SumFrom(_, _, _)
SumFrom(block, hash, i) ==
    IF i > Len(block) THEN hash
    ELSE SumFrom(block, wrapping_add(hash, block[i]), i + 1)

hash_without_rotate(data) == SumFrom(data, 0, 1)

\* the hash bridge_encode appends to each block (lines 50-54)
hash(data) == rolling_hash(data)

\* the hash bridge_decode and bridge_check recompute (lines 108-112, 185-189)
computed_hash(block_data) == rolling_hash(block_data)

\* a data size that forgets the hash byte of the block
data_size_with_hash(block_size) == block_size

\* bridge_decode: data size without the hash (line 89)
data_size_of(block_size) == block_size - 1

bridge_encode(self, data) ==
    IF data = <<>> THEN Err("InvalidData")
    ELSE LET blocks == [i \in 1..self.redundancy_level |->
                          data \o <<hash(data)>>]
         IN  Ok(<<BRIDGE_HEADER, self.redundancy_level,
                  self.verification_iterations>>
                \o Concat(blocks) \o <<BRIDGE_TRAILER>>)

\* the byte with the most votes; the lowest such byte wins a tie
max_byte(votes) ==
    LET count(b) == Cardinality({k \in 1..Len(votes) : votes[k] = b})
        cast == {votes[k] : k \in 1..Len(votes)}
    IN  CHOOSE b \in cast :
            \A c \in cast :
                count(c) < count(b) \/ (count(c) = count(b) /\ b <= c)

\* a selection that keeps the blocks whose hash does NOT match
RECURSIVE SelectBlocks_failed(_, _)
SelectBlocks_failed(blocks, ok) ==
    IF blocks = <<>> THEN <<>>
    ELSE IF ~ok[1]
         THEN <<Head(blocks)>> \o SelectBlocks_failed(Tail(blocks), Tail(ok))
    ELSE SelectBlocks_failed(Tail(blocks), Tail(ok))

\* a selection that lets every block vote, whatever its hash
SelectBlocks_all(blocks, ok) == blocks

\* the blocks that vote: complete and with a matching hash (lines 100-119)
RECURSIVE SelectBlocks(_, _)
SelectBlocks(blocks, ok) ==
    IF blocks = <<>> THEN <<>>
    ELSE IF ok[1] THEN <<Head(blocks)>> \o SelectBlocks(Tail(blocks), Tail(ok))
    ELSE SelectBlocks(Tail(blocks), Tail(ok))

bridge_decode(self, frame) ==
    LET n == Len(frame)
    IN  IF n < 5 \/ frame[1] # BRIDGE_HEADER \/ frame[n] # BRIDGE_TRAILER
        THEN Err("InvalidData")
        ELSE LET redundancy_level == frame[2]
                 data == SubSeq(frame, 4, n - 1)
             IN  IF redundancy_level = 0 THEN Err("InvalidData")
                 ELSE LET block_size == Len(data) \div redundancy_level
                          data_size == data_size_of(block_size)
                          block_start(i) == i * block_size
                          block_end(i) == block_start(i) + data_size
                          \* an incomplete block is skipped (line 100)
                          complete(i) == block_end(i) + 1 <= Len(data)
                          block_data(i) ==
                              SubSeq(data, block_start(i) + 1, block_end(i))
                          stored_hash(i) == data[block_end(i) + 1]
                          all_blocks == [i \in 1..redundancy_level |->
                                           IF complete(i - 1)
                                           THEN block_data(i - 1) ELSE <<>>]
                          voting == [i \in 1..redundancy_level |->
                                       /\ complete(i - 1)
                                       /\ computed_hash(block_data(i - 1))
                                            = stored_hash(i - 1)]
                          voters == SelectBlocks(all_blocks, voting)
                          block_votes(j) == [k \in 1..Len(voters) |-> voters[k][j]]
                      IN  IF block_size < 2 THEN Err("InvalidData")
                          ELSE IF voters = <<>> THEN Err("Uncorrectable")
                          ELSE Ok([j \in 1..data_size |-> max_byte(block_votes(j))])

bridge_check(self, frame) ==
    LET n == Len(frame)
    IN  IF n < 5 \/ frame[1] # BRIDGE_HEADER \/ frame[n] # BRIDGE_TRAILER
        THEN TRUE
        ELSE LET redundancy_level == frame[2]
                 data == SubSeq(frame, 4, n - 1)
             IN  IF redundancy_level = 0 THEN TRUE
                 ELSE LET block_size == Len(data) \div redundancy_level
                          block_start(i) == i * block_size
                          block_end(i) == block_start(i) + block_size - 1
                      IN  IF block_size < 2 THEN TRUE
                          ELSE \E i \in 0..(redundancy_level - 1) :
                                  \/ block_end(i) + 1 > Len(data)
                                  \/ computed_hash(SubSeq(data, block_start(i) + 1,
                                                          block_end(i)))
                                       # data[block_end(i) + 1]

Bridge_has_errors(self, data) == bridge_check(self, data)

-----------------------------------------------------------------------------
(* Quantum tier: quantum.rs *)

CHUNK_SIZE == 8

QuantumErrorCorrection_new ==
    [code_distance |-> 5, syndrome_iterations |-> 4]

\* a constructor that clamps an even code distance without rounding it up
QuantumErrorCorrection_with_params_unrounded(code_distance, syndrome_iterations) ==
    [code_distance |-> Min(Max(code_distance, 3), 15),
     syndrome_iterations |-> Min(Max(syndrome_iterations, 1), 10)]

QuantumErrorCorrection_with_params(code_distance, syndrome_iterations) ==
    [code_distance |->
        Min(Max(IF code_distance % 2 = 1 THEN code_distance
                ELSE code_distance + 1, 3), 15),
     syndrome_iterations |-> Min(Max(syndrome_iterations, 1), 10)]

\* data.chunks(8)
chunks(data) ==
    [c \in 1..((Len(data) + CHUNK_SIZE - 1) \div CHUNK_SIZE) |->
        SubSeq(data, (c - 1) * CHUNK_SIZE + 1, Min(c * CHUNK_SIZE, Len(data)))]

\* measurement of iteration i over chunk, continued from byte index j (0-based)
RECURSIVE MeasureFrom(_, _, _)
MeasureFrom(chunk, i, j) ==
    IF j >= Len(chunk) THEN 0
    ELSE Xor(rotate_left(chunk[j + 1], i + j), MeasureFrom(chunk, i, j + 1))

syndrome(self, chunk) ==
    [i \in 1..self.syndrome_iterations |-> MeasureFrom(chunk, i - 1, 0)]

surface_encode(self, data) ==
    IF data = <<>> THEN Err("InvalidData")
    ELSE LET cs == chunks(data)
             syndromes == [c \in 1..Len(cs) |-> syndrome(self, cs[c])]
         IN  Ok(<<markers.qs, self.code_distance, self.syndrome_iterations>>
                \o data \o Concat(syndromes) \o <<markers.qe>>)

error_detected(syndromes) ==
    \E i \in 2..Len(syndromes) : syndromes[i] # syndromes[1]

\* the byte at position j (0-based) of an erroneous block, after lines 141-155;
\* syndrome >> (bit + j) with bit + j >= 8 is masked to the low 3 bits of
\* the shift amount when overflow checks are off
corrected_byte(byte, j, syndromes, syndrome_iterations) ==
    LET bit_flip_count(bit) ==
            Cardinality({k \in 1..Len(syndromes) :
                            BitAt(syndromes[k], (bit + j) % 8) = 1})
        flip(bit) == IF bit_flip_count(bit) > syndrome_iterations \div 2
                     THEN 2 ^ bit ELSE 0
    IN  Xor(byte, flip(0) + flip(1) + flip(2) + flip(3)
                  + flip(4) + flip(5) + flip(6) + flip(7))

surface_decode(self, frame, overflow_checks) ==
    LET n == Len(frame)
    IN  IF n < 5 \/ frame[1] # markers.qs \/ frame[n] # markers.qe
        THEN Err("InvalidData")
        ELSE LET code_distance == frame[2]
                 syndrome_iterations == frame[3]
                 data == SubSeq(frame, 4, n - 1)
                 block_size == CHUNK_SIZE + syndrome_iterations
                 num_blocks == Len(data) \div block_size
                 block_data(i) == SubSeq(data, i * block_size + 1,
                                               i * block_size + CHUNK_SIZE)
                 syndromes(i) == SubSeq(data, i * block_size + CHUNK_SIZE + 1,
                                              (i + 1) * block_size)
                 corrected_data(i) ==
                     IF error_detected(syndromes(i))
                     THEN [j \in 1..CHUNK_SIZE |->
                             corrected_byte(block_data(i)[j], j - 1,
                                            syndromes(i), syndrome_iterations)]
                     ELSE block_data(i)
             IN  IF code_distance < 3 \/ syndrome_iterations = 0
                 THEN Err("InvalidData")
                 ELSE IF overflow_checks
                         /\ \E i \in 0..(num_blocks - 1) :
                               error_detected(syndromes(i))
                 THEN Panic("shift right with overflow")   \* bit + j >= 8
                 ELSE Ok(Concat([i \in 1..num_blocks |-> corrected_data(i - 1)]))

\* a check that also rejects a code distance below 3, as surface_decode does
surface_check_with_distance(self, frame) ==
    LET n == Len(frame)
    IN  IF n < 5 \/ frame[1] # markers.qs \/ frame[n] # markers.qe
        THEN TRUE
        ELSE LET syndrome_iterations == frame[3]
                 data == SubSeq(frame, 4, n - 1)
                 block_size == CHUNK_SIZE + syndrome_iterations
                 num_blocks == Len(data) \div block_size
                 syndromes(i) == SubSeq(data, i * block_size + CHUNK_SIZE + 1,
                                              (i + 1) * block_size)
             IN  IF frame[2] < 3 \/ syndrome_iterations = 0 THEN TRUE
                 ELSE \E i \in 0..(num_blocks - 1) :
                         error_detected(syndromes(i))

surface_check(self, frame) ==
    LET n == Len(frame)
    IN  IF n < 5 \/ frame[1] # markers.qs \/ frame[n] # markers.qe
        THEN TRUE
        ELSE LET syndrome_iterations == frame[3]
                 data == SubSeq(frame, 4, n - 1)
                 block_size == CHUNK_SIZE + syndrome_iterations
                 num_blocks == Len(data) \div block_size
                 syndromes(i) == SubSeq(data, i * block_size + CHUNK_SIZE + 1,
                                              (i + 1) * block_size)
             IN  IF syndrome_iterations = 0 THEN TRUE
                 ELSE \E i \in 0..(num_blocks - 1) :
                         error_detected(syndromes(i))

Quantum_has_errors(self, data) == surface_check(self, data)

-----------------------------------------------------------------------------
(* Comprehensive composer and factory: mod.rs *)

\* a composer built with the factory's standalone Classical redundancy
ComprehensiveErrorCorrection_new_8 ==
    [classical |-> ClassicalErrorCorrection_new(8),
     bridge |-> BridgeErrorCorrection_new,
     quantum |-> QuantumErrorCorrection_new]

ComprehensiveErrorCorrection_new ==
    [classical |-> ClassicalErrorCorrection_new(10),
     bridge |-> BridgeErrorCorrection_new,
     quantum |-> QuantumErrorCorrection_new]

\* each ? returns the Err (or lets the fault through) of the layer it follows
Comprehensive_encode(self, data) ==
    LET classical_encoded == reed_solomon_encode(self.classical, data)
        bridge_encoded == bridge_encode(self.bridge, classical_encoded.val)
    IN  IF classical_encoded.tag # "Ok" THEN classical_encoded
        ELSE IF bridge_encoded.tag # "Ok" THEN bridge_encoded
        ELSE surface_encode(self.quantum, bridge_encoded.val)

\* a decode that undoes the layers in the order encode applied them
Comprehensive_decode_in_encode_order(self, data, e) ==
    LET classical_decoded == reed_solomon_decode(self.classical, data, e.parity_len)
        bridge_decoded == bridge_decode(self.bridge, classical_decoded.val)
    IN  IF classical_decoded.tag # "Ok" THEN classical_decoded
        ELSE IF bridge_decoded.tag # "Ok" THEN bridge_decoded
        ELSE surface_decode(self.quantum, bridge_decoded.val, e.overflow_checks)

Comprehensive_decode(self, data, e) ==
    LET quantum_decoded == surface_decode(self.quantum, data, e.overflow_checks)
        bridge_decoded == bridge_decode(self.bridge, quantum_decoded.val)
    IN  IF quantum_decoded.tag # "Ok" THEN quantum_decoded
        ELSE IF bridge_decoded.tag # "Ok" THEN bridge_decoded
        ELSE reed_solomon_decode(self.classical, bridge_decoded.val, e.parity_len)

\* a check that asks the outermost layer only
Comprehensive_has_errors_outer_only(self, data) ==
    Quantum_has_errors(self.quantum, data)

Comprehensive_has_errors(self, data) ==
    \/ Quantum_has_errors(self.quantum, data)
    \/ Bridge_has_errors(self.bridge, data)
    \/ Classical_has_errors(self.classical, data)

Kinds == {"Classical", "Bridge", "Quantum", "Comprehensive"}

\* a factory that answers every request with the Classical tier
create_classical_only(correction_type) ==
    [self |-> ClassicalErrorCorrection_new(8), kind |-> "Classical"]

create_error_correction(correction_type) ==
    CASE correction_type = "Classical" ->
            [self |-> ClassicalErrorCorrection_new(8), kind |-> "Classical"]
      [] correction_type = "Bridge" ->
            [self |-> BridgeErrorCorrection_new, kind |-> "Bridge"]
      [] correction_type = "Quantum" ->
            [self |-> QuantumErrorCorrection_new, kind |-> "Quantum"]
      [] correction_type = "Comprehensive" ->
            [self |-> ComprehensiveErrorCorrection_new, kind |-> "Comprehensive"]

-----------------------------------------------------------------------------
(* The ErrorCorrection trait: dispatch on the instance *)

\* what a decode call reads besides its argument: whether the build checks
\* arithmetic overflow (quantum.rs:144) and the value of the undefined
\* parity_len (classical.rs:58)
DecodeEnvs(kind) ==
    [overflow_checks : IF kind \in {"Quantum", "Comprehensive"}
                       THEN BOOLEAN ELSE {"n/a"},
     parity_len : IF kind \in {"Classical", "Comprehensive"}
                  THEN 0..MaxUndefinedParityLen ELSE {-1}]

encode(c, data) ==
    CASE c.kind = "Classical" -> reed_solomon_encode(c.self, data)
      [] c.kind = "Bridge" -> bridge_encode(c.self, data)
      [] c.kind = "Quantum" -> surface_encode(c.self, data)
      [] c.kind = "Comprehensive" -> Comprehensive_encode(c.self, data)

\* a decode that takes the redundancy level from the instance, not the header
decode_by_own_parameters(c, data, e) ==
    CASE c.kind = "Classical" -> reed_solomon_decode(c.self, data, e.parity_len)
      [] c.kind = "Bridge" ->
            bridge_decode(c.self,
                          IF Len(data) < 2 THEN data
                          ELSE [data EXCEPT ![2] = c.self.redundancy_level])
      [] c.kind = "Quantum" -> surface_decode(c.self, data, e.overflow_checks)
      [] c.kind = "Comprehensive" -> Comprehensive_decode(c.self, data, e)

decode(c, data, e) ==
    CASE c.kind = "Classical" -> reed_solomon_decode(c.self, data, e.parity_len)
      [] c.kind = "Bridge" -> bridge_decode(c.self, data)
      [] c.kind = "Quantum" -> surface_decode(c.self, data, e.overflow_checks)
      [] c.kind = "Comprehensive" -> Comprehensive_decode(c.self, data, e)

has_errors(c, data) ==
    CASE c.kind = "Classical" -> Classical_has_errors(c.self, data)
      [] c.kind = "Bridge" -> Bridge_has_errors(c.self, data)
      [] c.kind = "Quantum" -> Quantum_has_errors(c.self, data)
      [] c.kind = "Comprehensive" -> Comprehensive_has_errors(c.self, data)

correction_type(c) == c.kind

MaxLenOf(kind) ==
    CASE kind = "Classical" -> MaxClassicalLen
      [] kind = "Bridge" -> MaxBridgeLen
      [] kind = "Quantum" -> MaxQuantumLen
      [] kind = "Comprehensive" -> MaxComprehensiveLen

Payloads(kind) ==
    SeqsUpTo(IF kind = "Bridge" THEN BridgePayloadBytes ELSE PayloadBytes,
             MaxLenOf(kind))

-----------------------------------------------------------------------------
(* The state machine: construct an instance, encode, then decode and check *)

\* (the fields of a record are written in TLC's own field order throughout)
NoCodec == [self |-> <<>>, kind |-> "None"]

\* the callers that hold a reference to one instance, and the call of a
\* caller: <<operation, argument, environment, result>>
Callers == {1, 2}
Idle == <<"idle", <<>>, NoEnv, NoResult>>

Init ==
    /\ markers \in MarkerChoices
    /\ codec = NoCodec
    /\ payload = <<>>
    /\ encoded = NoResult
    /\ wire = <<>>
    /\ env = NoEnv
    /\ decoded = NoResult
    /\ checked = "none"
    /\ pc = "start"
    /\ requested = "none"
    /\ calls = [t \in Callers |-> Idle]
    /\ args = <<>>
    /\ reported = "none"

Construct(c) ==
    /\ pc = "start"
    /\ codec' = c
    /\ pc' = "ready"
    /\ UNCHANGED <<markers, payload, encoded, wire, env, decoded, checked,
                   requested, calls, args, reported>>

ClassicalNew ==
    \E r \in ClassicalArgs :
        Construct([self |-> ClassicalErrorCorrection_new(r), kind |-> "Classical"])

BridgeNew ==
    Construct([self |-> BridgeErrorCorrection_new, kind |-> "Bridge"])

BridgeWithParams ==
    \E r \in BridgeRedundancyArgs, v \in BridgeVerificationArgs :
        Construct([self |-> BridgeErrorCorrection_with_params(r, v), kind |-> "Bridge"])

QuantumNew ==
    Construct([self |-> QuantumErrorCorrection_new, kind |-> "Quantum"])

QuantumWithParams ==
    \E d \in QuantumDistanceArgs, s \in QuantumSyndromeArgs :
        Construct([self |-> QuantumErrorCorrection_with_params(d, s), kind |-> "Quantum"])

ComprehensiveNew ==
    Construct([self |-> ComprehensiveErrorCorrection_new, kind |-> "Comprehensive"])

Create ==
    /\ pc = "start"
    /\ \E k \in Kinds :
          /\ requested' = k
          /\ codec' = create_error_correction(k)
    /\ pc' = "ready"
    /\ UNCHANGED <<markers, payload, encoded, wire, env, decoded, checked,
                   calls, args, reported>>

Encode ==
    /\ pc = "ready"
    /\ \E p \in Payloads(codec.kind) :
          LET r == encode(codec, p)
          IN  /\ payload' = p
              /\ encoded' = r
              /\ wire' = r.val
              /\ pc' = IF r.tag = "Ok" THEN "encoded" ELSE "failed"
    /\ UNCHANGED <<markers, codec, env, decoded, checked, requested, calls, args, reported>>

Decode ==
    /\ pc \in {"encoded", "corrupted", "received"}
    /\ decoded = NoResult
    /\ \E e \in DecodeEnvs(codec.kind) :
          /\ env' = e
          /\ decoded' = decode(codec, wire, e)
    /\ UNCHANGED <<markers, codec, payload, encoded, wire, checked, pc,
                   requested, calls, args, reported>>

HasErrors ==
    /\ pc \in {"encoded", "corrupted", "received"}
    /\ checked = "none"
    /\ checked' = IF has_errors(codec, wire) THEN "true" ELSE "false"
    /\ UNCHANGED <<markers, codec, payload, encoded, wire, env, decoded, pc,
                   requested, calls, args, reported>>

\* what a channel that damages bytes XORs onto a byte: one low bit, one high
\* bit, or every bit
FlipMasks == {1, 128}
ByteMasks == FlipMasks \cup {255}

\* the frame with mask XORed onto the bytes at sites
Damage(frame, sites, mask) ==
    [i \in 1..Len(frame) |->
        IF i \in sites THEN Xor(frame[i], mask) ELSE frame[i]]

\* the index range of the blocks of a bridge frame, and the size of a block
\* as bridge_decode computes it (lines 80-83)
BlockRegion(frame) == 4..(Len(frame) - 1)
BlockSizeOf(frame) == (Len(frame) - 4) \div frame[2]
BlockSites(frame, b) ==
    (4 + b * BlockSizeOf(frame))..(3 + (b + 1) * BlockSizeOf(frame))

\* a bridge frame with one byte of one block changed, or with the byte at
\* the same offset changed alike in every block
BridgeNoise(frame) ==
    {Damage(frame, {i}, m) : i \in BlockRegion(frame), m \in ByteMasks}
    \cup
    {Damage(frame,
            {4 + b * BlockSizeOf(frame) + off : b \in 0..(frame[2] - 1)}, m) :
        off \in 0..(BlockSizeOf(frame) - 1), m \in ByteMasks}

\* a quantum frame with one bit of one data byte flipped; the syndromes stay
\* as surface_encode computed them
QuantumNoise(frame, data_len) ==
    {Damage(frame, {i}, m) : i \in 4..(3 + data_len), m \in FlipMasks}

Noise(kind, frame, data_len) ==
    CASE kind = "Bridge" -> BridgeNoise(frame)
      [] kind = "Quantum" -> QuantumNoise(frame, data_len)
      [] OTHER -> {Damage(frame, {i}, m) : i \in 1..Len(frame), m \in FlipMasks}

\* the frame is damaged between encode and the calls of the receiver
Corrupt ==
    /\ pc = "encoded"
    /\ decoded = NoResult
    /\ checked = "none"
    /\ \E f \in Noise(codec.kind, wire, Len(payload)) : wire' = f
    /\ pc' = "corrupted"
    /\ UNCHANGED <<markers, codec, payload, encoded, env, decoded, checked,
                   requested, calls, args, reported>>

\* the instances of a tier that its constructors build
Instances(kind) ==
    CASE kind = "Classical" ->
            {[self |-> ClassicalErrorCorrection_new(r), kind |-> "Classical"] :
                r \in ClassicalArgs}
      [] kind = "Bridge" ->
            {[self |-> BridgeErrorCorrection_new, kind |-> "Bridge"]}
            \cup
            {[self |-> BridgeErrorCorrection_with_params(r, v), kind |-> "Bridge"] :
                r \in BridgeRedundancyArgs, v \in BridgeVerificationArgs}
      [] kind = "Quantum" ->
            {[self |-> QuantumErrorCorrection_new, kind |-> "Quantum"]}
            \cup
            {[self |-> QuantumErrorCorrection_with_params(d, s), kind |-> "Quantum"] :
                d \in QuantumDistanceArgs, s \in QuantumSyndromeArgs}
      [] kind = "Comprehensive" ->
            {[self |-> ComprehensiveErrorCorrection_new, kind |-> "Comprehensive"]}

\* payloads behind the frames a receiver is handed: zeros, then one byte
ZerosThen(n, b) == [i \in 1..n |-> IF i = n THEN b ELSE 0]
ReceivedLens(kind) ==
    CASE kind = "Classical" -> {4, 7}
      [] kind = "Bridge" -> {1, 2}
      [] kind = "Quantum" -> {1, 8, 9}
      [] kind = "Comprehensive" -> {10}
ReceivedPayloads(kind) ==
    {ZerosThen(n, b) : n \in ReceivedLens(kind), b \in PayloadBytes}

\* the frames the instances of a tier write
WrittenBy(kind) ==
    {encode(c, p).val : c \in Instances(kind), p \in ReceivedPayloads(kind)}
        \ {<<>>}

\* a quantum frame laid out as surface_decode reads it (lines 101-118): each
\* 8-byte chunk of data followed by its s syndrome bytes, here all zero
Interleaved(data, s) ==
    <<markers.qs, 5, s>>
    \o Concat([c \in 1..(Len(data) \div CHUNK_SIZE) |->
                 SubSeq(data, (c - 1) * CHUNK_SIZE + 1, c * CHUNK_SIZE)
                 \o [k \in 1..s |-> 0]])
    \o <<markers.qe>>

\* nested frames every layer of Comprehensive.decode can read: a classical
\* frame without parity inside a bridge frame inside an interleaved frame
ReadableNested ==
    {Interleaved(bridge_encode(BridgeErrorCorrection_new,
                               <<b, markers.rs, 10>>).val, 1) :
        b \in PayloadBytes}

\* byte sequences too short to be a frame
ShortFrameBytes == {0, 82, 200}
ShortFrames == SeqsUpTo(ShortFrameBytes, MaxShortFrameLen)

\* a frame with one more byte before its last byte
Stretched(f) == SubSeq(f, 1, Len(f) - 1) \o <<0>> \o <<f[Len(f)]>>

\* a frame with one of its two header parameter bytes set to 0 or 1
Reparametrised(f) == {[f EXCEPT ![i] = v] : i \in {2, 3}, v \in {0, 1}}

\* a bridge frame f whose first block is the first block of the frame g
Spliced(f, g) ==
    [i \in 1..Len(f) |-> IF i \in BlockSites(f, 0) THEN g[i] ELSE f[i]]

\* what decode and has_errors can be handed: a frame written by any instance
\* of the tier (for Comprehensive, also by an instance of one layer), such a
\* frame with one byte damaged anywhere, stretched by a byte or with another
\* header parameter, a bridge frame spliced with the first block of another
\* of the same shape, or a short byte sequence
ReceivedFrames(kind) ==
    LET written == WrittenBy(kind)
        stretched == {Stretched(f) : f \in written}
        reparametrised == UNION {Reparametrised(f) : f \in written}
        damaged == UNION {{Damage(f, {i}, m) : i \in 1..Len(f), m \in ByteMasks} :
                            f \in written}
        spliced == IF kind = "Bridge"
                   THEN {Spliced(fg[1], fg[2]) :
                            fg \in {p \in written \X written :
                                       /\ Len(p[1]) = Len(p[2])
                                       /\ p[1][2] = p[2][2]}}
                   ELSE {}
        layers == IF kind = "Comprehensive"
                  THEN WrittenBy("Classical") \cup WrittenBy("Bridge")
                           \cup WrittenBy("Quantum") \cup ReadableNested
                  ELSE {}
    IN  written \cup damaged \cup stretched \cup reparametrised \cup spliced
            \cup layers
            \cup ShortFrames

\* the instance is handed a frame it did not write
Receive ==
    /\ pc = "ready"
    /\ \E f \in ReceivedFrames(codec.kind) : wire' = f
    /\ pc' = "received"
    /\ UNCHANGED <<markers, codec, payload, encoded, env, decoded, checked,
                   requested, calls, args, reported>>

\* the operations of the trait that callers share
Operations == {"encode", "decode", "has_errors"}

\* the result of one call run alone; the boolean of has_errors is kept as
\* Ok(<<1>>) or Ok(<<0>>)
Apply(c, op, arg, e) ==
    CASE op = "encode" -> encode(c, arg)
      [] op = "decode" -> decode(c, arg, e)
      [] op = "has_errors" -> Ok(IF has_errors(c, arg) THEN <<1>> ELSE <<0>>)

\* what the callers hand to an operation of the shared instance: a payload,
\* or a frame the instance wrote, or a sequence that is no frame
SharedArgs(c, op) ==
    IF op = "encode" THEN ReceivedPayloads(c.kind)
    ELSE ({encode(c, p).val : p \in ReceivedPayloads(c.kind)} \ {<<>>})
             \cup {<<0, 0, 0>>}

SharedEnvs(c, op) ==
    IF op = "decode" THEN DecodeEnvs(c.kind) ELSE {NoEnv}

\* an instance that a call resets to the factory's configuration
instance_reset_by_call(c, op) == create_error_correction(c.kind)

\* the instance after a call: every method takes &self and the fields have
\* no interior mutability
instance_after_call(c, op) == c

\* caller t starts a call on the shared instance
Invoke(t) ==
    /\ pc \in {"ready", "shared"}
    /\ calls[t] = Idle
    /\ \E op \in Operations :
          \E arg \in SharedArgs(codec, op), e \in SharedEnvs(codec, op) :
              calls' = [calls EXCEPT ![t] = <<op, arg, e, NoResult>>]
    /\ pc' = "shared"
    /\ UNCHANGED <<markers, codec, payload, encoded, wire, env, decoded,
                   checked, requested, args, reported>>

\* the call of caller t runs on the instance as it is now, and returns
Return(t) ==
    /\ pc = "shared"
    /\ calls[t][1] # "idle"
    /\ calls[t][4] = NoResult
    /\ calls' = [calls EXCEPT ![t][4] =
                    Apply(codec, calls[t][1], calls[t][2], calls[t][3])]
    /\ codec' = instance_after_call(codec, calls[t][1])
    /\ UNCHANGED <<markers, payload, encoded, wire, env, decoded, checked, pc,
                   requested, args, reported>>

\* every value of a u8 argument, and pairs of arguments of which one takes
\* every value
AnyByte == 0..255
BridgeAnyParams ==
    (AnyByte \X BridgeVerificationArgs) \cup (BridgeRedundancyArgs \X AnyByte)
QuantumAnyParams ==
    (AnyByte \X QuantumSyndromeArgs) \cup (QuantumDistanceArgs \X AnyByte)

\* a constructor call whose arguments are recorded
Configure(c, a) ==
    /\ pc = "start"
    /\ codec' = c
    /\ args' = a
    /\ pc' = "ready"
    /\ UNCHANGED <<markers, payload, encoded, wire, env, decoded, checked,
                   requested, calls, reported>>

ClassicalNewOfAny ==
    \E r \in AnyByte :
        Configure([self |-> ClassicalErrorCorrection_new(r), kind |-> "Classical"],
                  <<r>>)

BridgeWithAnyParams ==
    \E a \in BridgeAnyParams :
        Configure([self |-> BridgeErrorCorrection_with_params(a[1], a[2]),
                   kind |-> "Bridge"], a)

QuantumWithAnyParams ==
    \E a \in QuantumAnyParams :
        Configure([self |-> QuantumErrorCorrection_with_params(a[1], a[2]),
                   kind |-> "Quantum"], a)

\* the fourth operation of the trait
CorrectionType ==
    /\ pc = "ready"
    /\ reported = "none"
    /\ reported' = correction_type(codec)
    /\ UNCHANGED <<markers, codec, payload, encoded, wire, env, decoded,
                   checked, pc, requested, calls, args>>

Calls == Encode \/ Decode \/ HasErrors

NextClassical == ClassicalNew \/ Calls
NextBridge == BridgeNew \/ BridgeWithParams \/ Calls
NextQuantum == QuantumNew \/ QuantumWithParams \/ Calls
NextComprehensive == ComprehensiveNew \/ Calls
NextEncode ==
    \/ ClassicalNew \/ BridgeNew \/ BridgeWithParams \/ QuantumNew
    \/ QuantumWithParams \/ ComprehensiveNew \/ Create \/ Encode
Next ==
    \/ ClassicalNew \/ BridgeNew \/ BridgeWithParams \/ QuantumNew
    \/ QuantumWithParams \/ ComprehensiveNew \/ Create \/ Calls

\* a frame is damaged on its way to decode
NextBridgeNoise == BridgeNew \/ BridgeWithParams \/ Encode \/ Corrupt \/ Decode
NextQuantumNoise == QuantumNew \/ QuantumWithParams \/ Encode \/ Corrupt \/ Decode

\* an instance from the factory is handed frames from elsewhere
NextReceive == Create \/ Receive \/ Decode \/ HasErrors

\* the composer encodes, is handed frames, and decodes
NextCompose == ComprehensiveNew \/ Encode \/ Receive \/ Decode

\* an instance from the factory encodes
NextFactory == Create \/ Encode

\* several callers share one instance
NextShared ==
    \/ ClassicalNew \/ BridgeNew \/ QuantumNew \/ ComprehensiveNew
    \/ \E t \in Callers : Invoke(t) \/ Return(t)

\* instances are constructed from every argument and asked their type
NextConfigure ==
    \/ ClassicalNewOfAny \/ BridgeWithAnyParams \/ QuantumWithAnyParams
    \/ BridgeNew \/ QuantumNew \/ ComprehensiveNew \/ CorrectionType

\* an instance from the factory runs every operation on what it is given
NextErrors == Create \/ Encode \/ Receive \/ Decode \/ HasErrors

\* the tiers that read none of the undetermined markers, or only their own
FirstMarkers == [rs |-> 82, qs |-> 81, qe |-> 69]
InitFirstMarkers == Init /\ markers = FirstMarkers

SpecClassical == Init /\ [][NextClassical]_vars
SpecBridge == Init /\ [][NextBridge]_vars
SpecQuantum == Init /\ [][NextQuantum]_vars
SpecComprehensive == Init /\ [][NextComprehensive]_vars
SpecEncode == Init /\ [][NextEncode]_vars
Spec == Init /\ [][Next]_vars
SpecBridgeNoise == InitFirstMarkers /\ [][NextBridgeNoise]_vars
SpecQuantumNoise == InitFirstMarkers /\ [][NextQuantumNoise]_vars
SpecReceive == Init /\ [][NextReceive]_vars
SpecCompose == InitFirstMarkers /\ [][NextCompose]_vars
SpecFactory == Init /\ [][NextFactory]_vars
SpecShared == Init /\ [][NextShared]_vars
SpecConfigure == Init /\ [][NextConfigure]_vars
SpecErrors == Init /\ [][NextErrors]_vars

-----------------------------------------------------------------------------
(* Properties *)

Called == pc \in {"encoded", "failed"}
Decoded == decoded # NoResult
Checked == checked # "none"

\* C1: Bridge round-trip.  For every non-empty payload and every Bridge
\* instance, encode returns a frame and decode of that frame returns Ok with
\* exactly the payload.
C1_BridgeRoundTrip ==
    (codec.kind = "Bridge" /\ Called /\ payload # <<>>)
        => /\ encoded.tag = "Ok"
           /\ Decoded => decoded = Ok(payload)

C1_Witness ==
    /\ codec.kind = "Bridge"
    /\ codec.self.redundancy_level = 5
    /\ payload = <<82, 0, 82>>
    /\ decoded = Ok(payload)

\* C2: Quantum round-trip.  For every non-empty payload of any length and
\* every Quantum instance, decode of the frame encode returned is Ok with
\* exactly the payload.
C2_QuantumRoundTrip ==
    (codec.kind = "Quantum" /\ pc = "encoded" /\ Decoded)
        => decoded = Ok(payload)

\* C3: Classical round-trip.  For every non-empty payload and redundancy,
\* decode of the frame encode returned is Ok with exactly the payload, when
\* decode locates the marker and the stored percentage where encode put
\* them and recomputes parity_len from the frame's total length.
C3_ClassicalRoundTrip ==
    (/\ codec.kind = "Classical"
     /\ pc = "encoded"
     /\ Decoded
     /\ env.parity_len = (Len(payload) * codec.self.redundancy) \div 100)
        => decoded = Ok(payload)

\* C4: Comprehensive round-trip.  For every non-empty payload, decode of the
\* frame Comprehensive.encode returned is Ok with exactly the payload.
C4_ComprehensiveRoundTrip ==
    (codec.kind = "Comprehensive" /\ pc = "encoded" /\ Decoded)
        => decoded = Ok(payload)

\* C5: For every tier and every non-empty payload, encode completes without
\* a fault and returns a frame of non-zero length.
C5_EncodeNeverFaults ==
    (Called /\ payload # <<>>)
        => (encoded.tag = "Ok" /\ Len(encoded.val) > 0)

\* C6: Emptiness rejection.  For each of the four tiers, encode of the empty
\* byte sequence returns the error InvalidData and no frame.
C6_EmptinessRejection ==
    (Called /\ payload = <<>>)
        => (encoded = Err("InvalidData") /\ pc = "failed")

C6_Witness ==
    /\ codec.kind = "Comprehensive"
    /\ Called
    /\ payload = <<>>
    /\ encoded = Err("InvalidData")

\* C7: Bridge freshness.  For every non-empty payload and every Bridge
\* instance, has_errors of the frame encode returned is false.
C7_BridgeFreshness ==
    (codec.kind = "Bridge" /\ pc = "encoded" /\ Checked)
        => checked = "false"

C7_Witness ==
    /\ codec.kind = "Bridge"
    /\ codec.self.redundancy_level = 4
    /\ payload = <<255, 82>>
    /\ checked = "false"

\* C8: Quantum freshness.  For every non-empty payload and every Quantum
\* instance, has_errors of the frame encode returned is false.
C8_QuantumFreshness ==
    (codec.kind = "Quantum" /\ pc = "encoded" /\ Checked)
        => checked = "false"

\* C9: Classical freshness.  For every non-empty payload and redundancy,
\* has_errors of the frame encode returned is false, whatever the parity
\* bytes that end the frame.
C9_ClassicalFreshness ==
    (codec.kind = "Classical" /\ pc = "encoded" /\ Checked)
        => checked = "false"

\* C10: Comprehensive freshness.  For every non-empty payload, has_errors of
\* the frame Comprehensive.encode returned is false.
C10_ComprehensiveFreshness ==
    (codec.kind = "Comprehensive" /\ pc = "encoded" /\ Checked)
        => checked = "false"

\* the positions where two frames of one length differ
Differing(a, b) == {i \in 1..Len(a) : a[i] # b[i]}

\* every block of a bridge frame fails its checksum
EveryBlockFails(frame) ==
    \A b \in 0..(frame[2] - 1) :
        LET sites == BlockSites(frame, b)
            last == 3 + (b + 1) * BlockSizeOf(frame)
        IN  hash(SubSeq(frame, 4 + b * BlockSizeOf(frame), last - 1))
                # frame[last]

\* C11: Bridge majority correction.  For a frame encode(p) made with
\* redundancy R >= 3 in which one byte inside exactly one of the R blocks was
\* changed to another value and nothing recomputed, decode returns Ok with
\* exactly p.
C11_BridgeMajorityCorrection ==
    (/\ codec.kind = "Bridge"
     /\ pc = "corrupted"
     /\ Decoded
     /\ codec.self.redundancy_level >= 3
     /\ Cardinality(Differing(wire, encoded.val)) = 1)
        => decoded = Ok(payload)

C11_Witness ==
    /\ codec.kind = "Bridge"
    /\ pc = "corrupted"
    /\ codec.self.redundancy_level = 3
    /\ payload = <<82, 0, 82>>
    /\ Differing(wire, encoded.val) = {5}
    /\ wire[5] = 255
    /\ decoded = Ok(payload)

\* C12: Bridge uncorrectable.  For a structurally valid frame in which every
\* one of the R blocks fails its checksum, decode returns the error
\* Uncorrectable and never a payload.
C12_BridgeUncorrectable ==
    (/\ codec.kind = "Bridge"
     /\ pc = "corrupted"
     /\ Decoded
     /\ EveryBlockFails(wire))
        => decoded = Err("Uncorrectable")

C12_Witness ==
    /\ codec.kind = "Bridge"
    /\ pc = "corrupted"
    /\ codec.self.redundancy_level = 3
    /\ payload = <<1, 255>>
    /\ Differing(wire, encoded.val) = {4, 7, 10}
    /\ EveryBlockFails(wire)
    /\ decoded = Err("Uncorrectable")

\* the chunk of data that holds the 0-based byte offset
ChunkOf(data, offset) ==
    LET first == (offset \div CHUNK_SIZE) * CHUNK_SIZE + 1
    IN  SubSeq(data, first, Min(first + CHUNK_SIZE - 1, Len(data)))

\* C13: Quantum flip correction.  For a frame encode(p) in which one bit of
\* one data byte of one 8-byte chunk was flipped and the syndromes left as
\* encode computed them, decode returns the original bytes of that chunk.
\* (Stated for payloads of exactly one chunk, whose frame surface_decode cuts
\* into blocks where surface_encode put them.)
C13_QuantumFlipCorrection ==
    (/\ codec.kind = "Quantum"
     /\ pc = "corrupted"
     /\ Decoded
     /\ Len(payload) = CHUNK_SIZE)
        => \A i \in Differing(wire, encoded.val) :
              /\ decoded.tag = "Ok"
              /\ ChunkOf(decoded.val, i - 4) = ChunkOf(payload, i - 4)

\* C14: The frame header governs decode.  For every tier and every byte
\* sequence f, every instance of the tier, whatever parameters it was
\* constructed with, returns from decode(f) and from has_errors(f) what the
\* instance that was called returned.
C14_HeaderGovernsDecode ==
    pc = "received"
        => \A c \in Instances(codec.kind) :
              /\ Decoded => decode(c, wire, env) = decoded
              /\ Checked => (has_errors(c, wire) <=> checked = "true")

C14_Witness ==
    /\ pc = "received"
    /\ codec.kind = "Bridge"
    /\ codec.self.redundancy_level = 3
    /\ wire = bridge_encode(BridgeErrorCorrection_with_params(5, 3), <<0, 82>>).val
    /\ decoded = Ok(<<0, 82>>)
    /\ checked = "false"

\* C15: All failures are returned as values.  For every tier and every byte
\* sequence f, decode(f) completes with Ok or with a declared error, never
\* with a fault.
C15_FailuresAreValues ==
    (pc = "received" /\ Decoded) => decoded.tag \in {"Ok", "Err"}

\* C16: Comprehensive error detection is layer-independent.  For every byte
\* sequence f, Comprehensive.has_errors(f) is the disjunction of the quantum,
\* bridge and classical has_errors of the whole of f, and is true whenever the
\* bridge check alone is true on f.
C16_LayerIndependentDetection ==
    (codec.kind = "Comprehensive" /\ pc = "received" /\ Checked)
        => /\ checked = "true"
                <=> \/ Quantum_has_errors(codec.self.quantum, wire)
                    \/ Bridge_has_errors(codec.self.bridge, wire)
                    \/ Classical_has_errors(codec.self.classical, wire)
           /\ Bridge_has_errors(codec.self.bridge, wire) => checked = "true"

C16_Witness ==
    /\ codec.kind = "Comprehensive"
    /\ pc = "received"
    /\ wire = surface_encode(QuantumErrorCorrection_new, ZerosThen(8, 0)).val
    /\ ~Quantum_has_errors(codec.self.quantum, wire)
    /\ Bridge_has_errors(codec.self.bridge, wire)
    /\ checked = "true"

\* the result of a chain of layers: the first result that is not Ok, or the
\* last result
FirstFailure(results) ==
    IF \E i \in 1..Len(results) : results[i].tag # "Ok"
    THEN results[CHOOSE i \in 1..Len(results) :
                    /\ results[i].tag # "Ok"
                    /\ \A k \in 1..(i - 1) : results[k].tag = "Ok"]
    ELSE results[Len(results)]

\* C17: Comprehensive is the exact composition of its three layers.
\* encode(p) is quantum.encode(bridge.encode(classical.encode(p))) and
\* decode(f) is classical.decode(bridge.decode(quantum.decode(f))); a result
\* of a layer that is not Ok is returned unchanged and the later layers are
\* not applied.
C17_ExactComposition ==
    codec.kind = "Comprehensive"
        => /\ Called =>
                LET c == reed_solomon_encode(codec.self.classical, payload)
                    b == bridge_encode(codec.self.bridge, c.val)
                    q == surface_encode(codec.self.quantum, b.val)
                IN  encoded = FirstFailure(<<c, b, q>>)
           /\ Decoded =>
                LET q == surface_decode(codec.self.quantum, wire,
                                        env.overflow_checks)
                    b == bridge_decode(codec.self.bridge, q.val)
                    c == reed_solomon_decode(codec.self.classical, b.val,
                                             env.parity_len)
                IN  decoded = FirstFailure(<<q, b, c>>)

C17_Witness ==
    /\ codec.kind = "Comprehensive"
    /\ pc = "received"
    /\ wire \in ReadableNested
    /\ decoded = Ok(<<82>>)
    /\ env.parity_len = 0
    /\ surface_decode(codec.self.quantum, wire, env.overflow_checks).val
          = bridge_encode(codec.self.bridge, <<82, markers.rs, 10>>).val

\* quantum.encode(bridge.encode(classical.encode(p))) for three codecs
Layered(classical, bridge, quantum, p) ==
    LET c == encode(classical, p)
        b == encode(bridge, c.val)
        q == encode(quantum, b.val)
    IN  FirstFailure(<<c, b, q>>)

\* the redundancy byte of the classical frame inside a nested frame: after
\* the quantum header, the bridge header, the payload and the marker
NestedRedundancyByte(frame, p) == frame[3 + 3 + Len(p) + 2]

\* C18 as stated: the factory builds Comprehensive from the defaults of its
\* standalone tiers; create(Comprehensive).encode(p) is
\* create(Quantum).encode(create(Bridge).encode(create(Classical).encode(p)))
\* and the classical redundancy byte inside the nested frame is 8.
C18_FactoryDefaultsAsStandalone ==
    (requested = "Comprehensive" /\ Called /\ payload # <<>>)
        => /\ encoded = Layered(create_error_correction("Classical"),
                                create_error_correction("Bridge"),
                                create_error_correction("Quantum"), payload)
           /\ encoded.tag = "Ok" => NestedRedundancyByte(wire, payload) = 8

\* C18, amended: the factory's Comprehensive wraps Classical with 10%
\* redundancy, Bridge R=3 V=2 and Quantum D=5 S=4; its encode(p) is
\* create(Quantum).encode(create(Bridge).encode(c.encode(p))) with c the
\* Classical codec of redundancy 10, and the classical redundancy byte inside
\* the nested frame is 10.
C18_FactoryComprehensiveDefaults ==
    (requested = "Comprehensive" /\ Called /\ payload # <<>>)
        => /\ encoded = Layered([self |-> ClassicalErrorCorrection_new(10),
                                 kind |-> "Classical"],
                                create_error_correction("Bridge"),
                                create_error_correction("Quantum"), payload)
           /\ encoded.tag = "Ok" => NestedRedundancyByte(wire, payload) = 10

C18_Witness ==
    /\ requested = "Comprehensive"
    /\ pc = "encoded"
    /\ payload = ZerosThen(10, 82)
    /\ encoded.tag = "Ok"
    /\ NestedRedundancyByte(wire, payload) = 10
    /\ wire[3 + 3 + Len(payload) + 1] = markers.rs

\* C19: The factory is total and faithful.  For each of the four tier kinds
\* k, create(k) returns a codec, never an error, whose correction_type() is k.
C19_FactoryTotalAndFaithful ==
    requested \in Kinds
        => /\ codec # NoCodec
           /\ codec.kind \in Kinds
           /\ correction_type(codec) = requested

C19_Witness ==
    /\ requested = "Comprehensive"
    /\ pc = "ready"
    /\ correction_type(codec) = "Comprehensive"
    /\ codec.self = ComprehensiveErrorCorrection_new

Returned(t) == calls[t][1] # "idle" /\ calls[t][4] # NoResult

ExpectedParity(p, parity_len) ==
    [k \in 1..parity_len |-> ParityByte(p, parity_len, k - 1, 1)]

\* C21: Classical frame layout.  For a non-empty payload of n bytes and
\* redundancy r, encode returns payload ++ [MARKER] ++ [r] ++ parity, where
\* parity has floor(n*r/100) bytes, byte k being the XOR of the payload bytes
\* at indices i with i mod parity_len = k; the frame has n + 2 + floor(n*r/100)
\* bytes.
C21_ClassicalFrameLayout ==
    (codec.kind = "Classical" /\ Called /\ payload # <<>>)
        => LET r == codec.self.redundancy
               parity_len == (Len(payload) * r) \div 100
           IN  /\ encoded = Ok(payload \o <<markers.rs, r>>
                               \o ExpectedParity(payload, parity_len))
               /\ Len(encoded.val) = Len(payload) + 2 + parity_len

\* the low nibble of the final byte of a sequence is nonzero
LowNibbleSet(f) == f # <<>> /\ f[Len(f)] % 16 # 0

\* C22 as stated: for every byte sequence f, classical has_errors(f) is true
\* exactly when the low nibble of the final byte of f is nonzero.
C22_ClassicalNibbleHeuristic ==
    (codec.kind = "Classical" /\ pc = "received" /\ Checked)
        => (checked = "true" <=> LowNibbleSet(wire))

\* C22, amended: for every byte sequence f, classical has_errors(f) is true
\* exactly when f has at least 3 bytes, its last byte but one is the marker
\* and the low nibble of its final byte is nonzero; it is false otherwise.
C22_ClassicalMarkedNibbleHeuristic ==
    (codec.kind = "Classical" /\ pc = "received" /\ Checked)
        => (checked = "true"
                <=> /\ Len(wire) >= 3
                    /\ wire[Len(wire) - 1] = markers.rs
                    /\ LowNibbleSet(wire))

C22_Witness ==
    /\ codec.kind = "Classical"
    /\ pc = "received"
    /\ wire = <<0, 82, 200>>
    /\ markers.rs = 82
    /\ checked = "true"

\* the ranges of the configuration of each tier
ClassicalInRange(self) == self.redundancy \in 5..30
BridgeInRange(self) ==
    self.redundancy_level \in 1..5 /\ self.verification_iterations \in 1..5
QuantumInRange(self) ==
    /\ self.code_distance \in 3..15
    /\ self.code_distance % 2 = 1
    /\ self.syndrome_iterations \in 1..10

\* the value v of a field that was built from the argument a: a itself when
\* a lies in the range
KeptInRange(a, range, v) == a \in range => v = a

\* an even code distance asked for, rounded up to the next odd value
NextOdd(d) == IF d % 2 = 0 THEN d + 1 ELSE d

ConfigurationInRange ==
    pc # "start" =>
        CASE codec.kind = "Classical" ->
                /\ ClassicalInRange(codec.self)
                /\ args # <<>> => KeptInRange(args[1], 5..30, codec.self.redundancy)
          [] codec.kind = "Bridge" ->
                /\ BridgeInRange(codec.self)
                /\ args # <<>> =>
                      /\ KeptInRange(args[1], 1..5, codec.self.redundancy_level)
                      /\ KeptInRange(args[2], 1..5,
                                     codec.self.verification_iterations)
          [] codec.kind = "Quantum" ->
                /\ QuantumInRange(codec.self)
                /\ args # <<>> =>
                      /\ NextOdd(args[1]) <= 255
                      /\ KeptInRange(NextOdd(args[1]), 3..15,
                                     codec.self.code_distance)
                      /\ KeptInRange(args[2], 1..10,
                                     codec.self.syndrome_iterations)
          [] codec.kind = "Comprehensive" ->
                /\ ClassicalInRange(codec.self.classical)
                /\ BridgeInRange(codec.self.bridge)
                /\ QuantumInRange(codec.self.quantum)

\* C23: Configuration range invariant.  For every constructor argument in
\* 0..255, Classical::new yields a redundancy in 5..30, Bridge::with_params
\* yields R and V in 1..5, Quantum::with_params yields an odd code distance
\* in 3..15 (an even request rounded up first, without overflow) and S in
\* 1..10, values in range are kept, the default constructors satisfy the
\* ranges, and no operation afterwards changes the configuration.
C23_ConfigurationRange ==
    /\ []ConfigurationInRange
    /\ [][pc # "start" => codec' = codec]_vars

C23_Witness ==
    /\ codec.kind = "Quantum"
    /\ args = <<254, 200>>
    /\ codec.self.code_distance = 15
    /\ codec.self.syndrome_iterations = 10
    /\ reported = "Quantum"

\* the recomputed rolling checksum of every block of a bridge frame equals
\* the checksum byte stored after the block
EveryBlockMatches(frame) ==
    \A b \in 0..(frame[2] - 1) :
        LET first == 4 + b * BlockSizeOf(frame)
            last == 3 + (b + 1) * BlockSizeOf(frame)
        IN  hash(SubSeq(frame, first, last - 1)) = frame[last]

\* a well-formed bridge frame: markers, R > 0, an inner length that is an
\* exact multiple of R, blocks of at least 2 bytes
WellFormedBridge(frame) ==
    /\ Len(frame) >= 5
    /\ frame[1] = BRIDGE_HEADER
    /\ frame[Len(frame)] = BRIDGE_TRAILER
    /\ frame[2] > 0
    /\ (Len(frame) - 4) % frame[2] = 0
    /\ BlockSizeOf(frame) >= 2

\* C24: Bridge has_errors.  For every byte sequence f, has_errors(f) is false
\* if and only if f is well formed and the recomputed checksum of every one
\* of the R blocks equals its stored checksum byte; it is true for every
\* malformed frame, including one whose inner length is not an exact multiple
\* of R.
C24_BridgeHasErrors ==
    (codec.kind = "Bridge" /\ pc = "received" /\ Checked)
        => (checked = "false"
                <=> (WellFormedBridge(wire) /\ EveryBlockMatches(wire)))

\* a well-formed quantum frame: markers, code distance >= 3, S > 0
WellFormedQuantum(frame) ==
    /\ Len(frame) >= 5
    /\ frame[1] = markers.qs
    /\ frame[Len(frame)] = markers.qe
    /\ frame[2] >= 3
    /\ frame[3] > 0

\* the body of a frame, the number of complete (8+S)-byte blocks in it, and
\* the data bytes and syndrome bytes of block k (from 1)
BodyOf(frame) == SubSeq(frame, 4, Len(frame) - 1)
NumBlocks(frame) == Len(BodyOf(frame)) \div (CHUNK_SIZE + frame[3])
BlockData(frame, k) ==
    SubSeq(BodyOf(frame), (k - 1) * (CHUNK_SIZE + frame[3]) + 1,
           (k - 1) * (CHUNK_SIZE + frame[3]) + CHUNK_SIZE)
BlockSyndromes(frame, k) ==
    SubSeq(BodyOf(frame), (k - 1) * (CHUNK_SIZE + frame[3]) + CHUNK_SIZE + 1,
           k * (CHUNK_SIZE + frame[3]))
SyndromesEqual(frame, k) ==
    \A i \in 1..frame[3] : BlockSyndromes(frame, k)[i] = BlockSyndromes(frame, k)[1]

\* C25: Quantum decode segmentation.  For every well-formed quantum frame
\* with body length L and header syndrome count S, decode returns Ok with
\* exactly 8 * floor(L / (8 + S)) bytes; every block whose S syndrome bytes
\* are mutually equal contributes its 8 data bytes unchanged, and trailing
\* bytes that do not fill a block are dropped without an error.
C25_QuantumDecodeSegmentation ==
    (/\ codec.kind = "Quantum"
     /\ pc = "received"
     /\ Decoded
     /\ WellFormedQuantum(wire))
        => /\ decoded.tag = "Ok"
           /\ Len(decoded.val) = CHUNK_SIZE * NumBlocks(wire)
           /\ \A k \in 1..NumBlocks(wire) :
                 SyndromesEqual(wire, k)
                     => SubSeq(decoded.val, (k - 1) * CHUNK_SIZE + 1,
                               k * CHUNK_SIZE) = BlockData(wire, k)

FirstBlockData(frame) == SubSeq(frame, 4, 2 + BlockSizeOf(frame))

\* C27: Check/decode agreement.  For the Bridge and Quantum tiers and every
\* byte sequence f, if has_errors(f) is false then decode(f) does not return
\* an error, and for Bridge the decoded payload then equals the data bytes of
\* the first block.
C27_CheckDecodeAgreement ==
    (/\ codec.kind \in {"Bridge", "Quantum"}
     /\ pc = "received"
     /\ Decoded
     /\ checked = "false")
        => /\ decoded.tag = "Ok"
           /\ codec.kind = "Bridge" => decoded.val = FirstBlockData(wire)

\* the 0-based block of a bridge frame that holds position i, and whether the
\* recomputed checksum of block b equals the checksum byte stored after it
BlockOf(frame, i) == (i - 4) \div BlockSizeOf(frame)
BlockMatches(frame, b) ==
    LET last == 3 + (b + 1) * BlockSizeOf(frame)
    IN  hash(SubSeq(frame, 4 + b * BlockSizeOf(frame), last - 1)) = frame[last]

\* C28: Bridge never returns a wrong payload after a single-byte corruption.
\* For every R in 1..5 and non-empty payload p, if exactly one byte inside the
\* repeated-block region of encode(p) (a data byte or a checksum byte) is
\* replaced by a different value, that block's recomputed checksum mismatches,
\* so decode returns p when R >= 2 and Uncorrectable when R = 1, and never Ok
\* with a payload other than p.
C28_BridgeSingleByteSafety ==
    (/\ codec.kind = "Bridge"
     /\ pc = "corrupted"
     /\ Decoded
     /\ Cardinality(Differing(wire, encoded.val)) = 1
     /\ Differing(wire, encoded.val) \subseteq BlockRegion(wire))
        => /\ codec.self.redundancy_level \in 1..5
           /\ \A i \in Differing(wire, encoded.val) :
                 ~BlockMatches(wire, BlockOf(wire, i))
           /\ codec.self.redundancy_level >= 2 => decoded = Ok(payload)
           /\ codec.self.redundancy_level = 1 => decoded = Err("Uncorrectable")
           /\ decoded.tag = "Ok" => decoded.val = payload

C28_Witness ==
    /\ codec.kind = "Bridge"
    /\ pc = "corrupted"
    /\ codec.self.redundancy_level = 1
    /\ payload = <<82, 0>>
    /\ Differing(wire, encoded.val) = {4}
    /\ wire[4] = 210
    /\ ~BlockMatches(wire, 0)
    /\ decoded = Err("Uncorrectable")

\* C29: Quantum encode/decode layout agreement.  For every fresh frame
\* encode(p), for payloads of every length, the k-th (8+S)-byte block that
\* decode and has_errors cut out of the body consists of the k-th 8-byte chunk
\* of p followed by exactly the S syndrome bytes encode computed for that
\* chunk.
C29_QuantumLayoutAgreement ==
    (codec.kind = "Quantum" /\ pc = "encoded" /\ encoded.tag = "Ok")
        => \A k \in 1..Len(chunks(payload)) :
              /\ k <= NumBlocks(wire)
              /\ BlockData(wire, k) = chunks(payload)[k]
              /\ BlockSyndromes(wire, k) = syndrome(codec.self, chunks(payload)[k])

\* the error kinds no code path constructs
UnusedErrors == {"AlgorithmError", "UnsupportedType"}

\* a frame that passes the validation of bridge_decode: markers, R > 0 and
\* blocks of at least 2 bytes
StructurallyValidBridge(frame) ==
    /\ Len(frame) >= 5
    /\ frame[1] = BRIDGE_HEADER
    /\ frame[Len(frame)] = BRIDGE_TRAILER
    /\ frame[2] > 0
    /\ BlockSizeOf(frame) >= 2

\* the bridge layer of Comprehensive decode returns Uncorrectable for the
\* structurally valid frame the quantum layer handed it
BridgeLayerUncorrectable ==
    LET quantum_decoded ==
            surface_decode(codec.self.quantum, wire, env.overflow_checks)
    IN  /\ quantum_decoded.tag = "Ok"
        /\ StructurallyValidBridge(quantum_decoded.val)
        /\ bridge_decode(codec.self.bridge, quantum_decoded.val)
               = Err("Uncorrectable")

\* C30: Reachable error kinds.  Over all four tiers and all inputs, no
\* operation returns AlgorithmError or UnsupportedType; encode fails only with
\* InvalidData and only on an empty payload; Uncorrectable is returned only by
\* Bridge decode (and by Comprehensive decode when its bridge layer returns
\* it), and only for a structurally valid frame.
C30_ReachableErrorKinds ==
    /\ encoded.err \notin UnusedErrors
    /\ decoded.err \notin UnusedErrors
    /\ (Called /\ encoded.tag # "Ok")
          => (encoded = Err("InvalidData") /\ payload = <<>>)
    /\ encoded # Err("Uncorrectable")
    /\ decoded = Err("Uncorrectable")
          => \/ codec.kind = "Bridge" /\ StructurallyValidBridge(wire)
             \/ codec.kind = "Comprehensive" /\ BridgeLayerUncorrectable

====
